---- MODULE Spec2Model ----
(***************************************************************************)
(* Model of the heredity inference program (src/heredity/heredity.py) and  *)
(* of the PageRank transition model (src/pagerank/pagerank.py).            *)
(*                                                                         *)
(* Numbers.  The programs compute with Python floats.  The model computes  *)
(* the same expressions over exact rationals: every probability of the     *)
(* tables is a whole number of hundredths, a joint probability over n      *)
(* individuals is a whole number of units of 10^-(6n), and a quotient is   *)
(* kept as the pair (numerator, denominator).  Whole numbers beyond the    *)
(* range of TLC's integers are kept as sequences of base-10000 limbs,      *)
(* least significant first, <<>> being zero.  Rounding error of the floats *)
(* is therefore not modelled.                                              *)
(***************************************************************************)
EXTENDS Integers, Sequences, FiniteSets, Bags, TLC

VARIABLES
    pc,             \* position of main(): load, trait_loop, gene_loop, normalize, done, error
    rows,           \* the CSV rows read by load_data: name -> [mother, father, trait] literals
    PROBS,          \* the probability tables (module global PROBS), in hundredths
    people,         \* the dictionary load_data returns
    probabilities,  \* the accumulator of main()
    ti, oi, wi,     \* indexes of the three nested loops into their powerset lists
    one_gene, two_genes, have_trait,  \* the loop variables of main()
    p,              \* the value joint_probability returned last
    err,            \* the exception that ended the run, or "none"
    called,         \* history: the hypothesis of the last call of joint_probability
    visited,        \* history: the hypotheses handed to joint_probability
    ncalls,         \* history: the number of calls of joint_probability
    raw,            \* history: the accumulator as it was when normalize was called
    calls,          \* history: the bag of update calls made directly on the accumulator
    corpus,         \* pagerank: page -> set of pages it links to
    damping_factor, \* pagerank: in hundredths
    model,          \* pagerank: the distribution transition_model returned last
    page,           \* pagerank: the page the surfer is on
    pagerank,       \* pagerank: page -> number of visits (a missing key is 0 visits)
    samples         \* pagerank: samples drawn so far

vars == <<pc, rows, PROBS, people, probabilities, ti, oi, wi, one_gene, two_genes,
          have_trait, p, err, called, visited, ncalls, raw, calls,
          corpus, damping_factor, model, page, pagerank, samples>>

heredityVars == <<rows, PROBS, people, probabilities, ti, oi, wi, one_gene, two_genes,
                  have_trait, p, err, called, visited, ncalls, raw, calls>>

pagerankVars == <<corpus, damping_factor, model, page, pagerank, samples>>

----------------------------------------------------------------------------
(* Bounds of the model.                                                    *)

\* Largest number of individuals of a well-formed pedigree.
MaxPeople == 3

\* Largest number of individuals of a pedigree that may be malformed.
MaxLoadPeople == 2

\* Largest number of update calls made directly on an accumulator.
MaxCalls == 2

\* Largest number of pages of a corpus.
MaxPages == 3

\* Number n of samples sample_pagerank is asked for.
MaxSamples == 3

----------------------------------------------------------------------------
(* Exact arithmetic on naturals of any size.                               *)

Base == 100 * 100

RECURSIVE BigFromNat(_)
BigFromNat(n) == IF n = 0 THEN <<>> ELSE <<n % Base>> \o BigFromNat(n \div Base)

RECURSIVE BigToNat(_)
BigToNat(a) == IF a = <<>> THEN 0 ELSE Head(a) + Base * BigToNat(Tail(a))

RECURSIVE BigAddC(_, _, _)
BigAddC(a, b, c) ==
    IF a = <<>> /\ b = <<>>
    THEN IF c = 0 THEN <<>> ELSE <<c>>
    ELSE LET x == IF a = <<>> THEN 0 ELSE Head(a)
             y == IF b = <<>> THEN 0 ELSE Head(b)
             s == x + y + c
         IN  <<s % Base>> \o BigAddC(IF a = <<>> THEN <<>> ELSE Tail(a),
                                     IF b = <<>> THEN <<>> ELSE Tail(b),
                                     s \div Base)

BigAdd(a, b) == BigAddC(a, b, 0)

\* a * k + c for a limb k < Base
RECURSIVE BigMulLimb(_, _, _)
BigMulLimb(a, k, c) ==
    IF k = 0 THEN <<>>
    ELSE IF a = <<>>
    THEN IF c = 0 THEN <<>> ELSE <<c>>
    ELSE LET s == Head(a) * k + c
         IN  <<s % Base>> \o BigMulLimb(Tail(a), k, s \div Base)

RECURSIVE BigMul(_, _)
BigMul(a, b) ==
    IF a = <<>> \/ b = <<>> THEN <<>>
    ELSE LET rest == BigMul(a, Tail(b))
         IN  BigAdd(BigMulLimb(a, Head(b), 0),
                    IF rest = <<>> THEN <<>> ELSE <<0>> \o rest)

RECURSIVE BigLess(_, _)
BigLess(a, b) ==
    IF Len(a) # Len(b) THEN Len(a) < Len(b)
    ELSE IF a = <<>> THEN FALSE
    ELSE IF a[Len(a)] # b[Len(b)] THEN a[Len(a)] < b[Len(b)]
    ELSE BigLess(SubSeq(a, 1, Len(a) - 1), SubSeq(b, 1, Len(b) - 1))

BigLeq(a, b) == a = b \/ BigLess(a, b)

RECURSIVE BigSum(_)
BigSum(s) == IF s = <<>> THEN <<>> ELSE BigAdd(Head(s), BigSum(Tail(s)))

RECURSIVE BigProduct(_)
BigProduct(s) == IF Len(s) = 1 THEN s[1] ELSE BigMul(Head(s), BigProduct(Tail(s)))

----------------------------------------------------------------------------
(* heredity.py: tables and input.                                          *)

\* Python's None
None == "None"

\* A reference to somebody who is not in the CSV
Dangling == "Z"

\* Python's bool as it is compared with a trait that may be None
Bool(b) == IF b THEN "True" ELSE "False"

\* The names a CSV may use, in the order of its rows
AllNames == <<"A", "B", "C", "D", "E">>

Index(name) == CHOOSE i \in 1..Len(AllNames) : AllNames[i] = name

NameSet(n) == {AllNames[i] : i \in 1..n}

\* list(s): the elements of a set of names as a list
ListOf(s) == SelectSeq(AllNames, LAMBDA x : x \in s)

\* PROBS as the source sets it, in hundredths
DefaultPROBS ==
    [gene     |-> [g \in 0..2 |-> CASE g = 2 -> 1 [] g = 1 -> 3 [] g = 0 -> 96],
     trait    |-> [g \in 0..2 |->
                     [t \in BOOLEAN |->
                        CASE g = 2 -> (IF t THEN 65 ELSE 35)
                          [] g = 1 -> (IF t THEN 56 ELSE 44)
                          [] g = 0 -> (IF t THEN 1 ELSE 99)]],
     mutation |-> 1]

\* Tables under which nobody can show the trait, whatever the gene count
ZeroTraitPROBS ==
    [gene     |-> DefaultPROBS.gene,
     trait    |-> [g \in 0..2 |-> [t \in BOOLEAN |-> IF t THEN 0 ELSE 100]],
     mutation |-> DefaultPROBS.mutation]

\* One hundredth-unit of a whole: 1.0 and 0.5 of the source
One == 100
Half == 50

\* The parent fields a well-formed row of `name` may hold: both blank, or two
\* different individuals listed before `name`.
ParentPairs(name) ==
    {<<"", "">>} \cup
    {<<AllNames[i], AllNames[j]>> : i \in 1..(Index(name) - 1), j \in 1..(Index(name) - 1)}

WellFormedPair(name, pair) ==
    /\ pair \in ParentPairs(name)
    /\ pair[1] # "" => Index(pair[1]) < Index(pair[2])

MakeRows(names, pairs, traits) ==
    [name \in names |-> [mother |-> pairs[name][1], father |-> pairs[name][2],
                         trait |-> traits[name]]]

\* The CSVs of 1..n individuals that the docstring of load_data allows
WellFormedRows(n) ==
    UNION {
        LET names == NameSet(k)
            allPairs == UNION {ParentPairs(name) : name \in names}
        IN  {MakeRows(names, pairs, traits) :
                pairs \in {f \in [names -> allPairs] :
                              \A name \in names : WellFormedPair(name, f[name])},
                traits \in [names -> {"1", "0", ""}]}
        : k \in 1..n}

\* CSVs whose first row may break the docstring of load_data: a parent field
\* alone, a parent who is in no row, a trait literal that is neither 0 nor 1
\* nor blank.  The other rows are individuals without parents.
AnyRows(n) ==
    UNION {
        LET names == NameSet(k)
            refs == {""} \cup (names \ {"A"}) \cup {Dangling}
        IN  {MakeRows(names, [name \in names |-> IF name = "A" THEN pairA ELSE <<"", "">>],
                      [name \in names |-> IF name = "A" THEN traitA ELSE traits[name]]) :
                pairA \in refs \X refs,
                traitA \in {"1", "0", "", "x"},
                traits \in [names -> {"1", "0", ""}]}
        : k \in 1..n}

\* What the docstring of load_data asks of a CSV
WellFormed(rs) ==
    \A name \in DOMAIN rs :
        /\ \/ rs[name].mother = "" /\ rs[name].father = ""
           \/ rs[name].mother \in DOMAIN rs /\ rs[name].father \in DOMAIN rs
        /\ rs[name].trait \in {"1", "0", ""}

load_data(rs) ==
    [name \in DOMAIN rs |->
        [name   |-> name,
         mother |-> IF rs[name].mother = "" THEN None ELSE rs[name].mother,
         father |-> IF rs[name].father = "" THEN None ELSE rs[name].father,
         trait  |-> IF rs[name].trait = "1" THEN "True"
                    ELSE IF rs[name].trait = "0" THEN "False" ELSE None]]

\* The accumulator main() starts from
ZeroProbabilities(names) ==
    [name \in names |-> [gene  |-> [g \in 0..2 |-> <<>>],
                         trait |-> [t \in BOOLEAN |-> <<>>]]]

----------------------------------------------------------------------------
(* heredity.py: the functions.                                             *)

\* itertools.combinations(s, r), each combination as a set
RECURSIVE combinations(_, _)
combinations(s, r) ==
    IF r = 0 THEN <<{}>>
    ELSE IF Len(s) < r THEN <<>>
    ELSE LET with == combinations(Tail(s), r - 1)
         IN  [i \in 1..Len(with) |-> {Head(s)} \cup with[i]] \o combinations(Tail(s), r)

RECURSIVE chain(_, _)
chain(s, r) == IF r > Len(s) THEN <<>> ELSE combinations(s, r) \o chain(s, r + 1)

\* powerset of every set of names, computed once
PowersetTable == [s \in SUBSET NameSet(Len(AllNames)) |-> chain(ListOf(s), 0)]

powerset(s) == PowersetTable[s]

\* A loop over two_genes that forgets to take the one-gene individuals out
two_genes_sets_overlapping(all, og) == powerset(all)

\* line 79: the sets the innermost loop runs over
two_genes_sets(all, og) == powerset(all \ og)

get_gene_numbers(ppl, og, tg) ==
    [name \in DOMAIN ppl |-> IF name \in og THEN 1 ELSE IF name \in tg THEN 2 ELSE 0]

\* parent_giving with the two-copies case of `giving` returning the mutation rate
parent_giving_swapped(parent_gene, giving) ==
    IF giving
    THEN IF parent_gene = 0 THEN PROBS.mutation
         ELSE IF parent_gene = 1 THEN Half
         ELSE PROBS.mutation
    ELSE IF parent_gene = 0 THEN One - PROBS.mutation
         ELSE IF parent_gene = 1 THEN Half
         ELSE PROBS.mutation

parent_giving(parent_gene, giving) ==
    IF giving
    THEN IF parent_gene = 0 THEN PROBS.mutation
         ELSE IF parent_gene = 1 THEN Half
         ELSE One - PROBS.mutation
    ELSE IF parent_gene = 0 THEN One - PROBS.mutation
         ELSE IF parent_gene = 1 THEN Half
         ELSE PROBS.mutation

\* The factor of somebody without a mother with the trait looked up negated
no_parents_prob_negated(gene, trait) == PROBS.gene[gene] * PROBS.trait[gene][~trait] * One

\* lines 153-156: the factor of somebody without a mother, in units of 10^-6
no_parents_prob(gene, trait) == PROBS.gene[gene] * PROBS.trait[gene][trait] * One

\* The child's gene count with one of the two ways to get one copy forgotten
child_gene_prob_one_way(gene, mother_gene, father_gene) ==
    IF gene = 0
    THEN parent_giving(mother_gene, FALSE) * parent_giving(father_gene, FALSE)
    ELSE IF gene = 1
    THEN parent_giving(mother_gene, FALSE) * parent_giving(father_gene, TRUE)
    ELSE parent_giving(mother_gene, TRUE) * parent_giving(father_gene, TRUE)

\* lines 165-171: the probability of the child's gene count, in units of 10^-4
child_gene_prob(gene, mother_gene, father_gene) ==
    IF gene = 0
    THEN parent_giving(mother_gene, FALSE) * parent_giving(father_gene, FALSE)
    ELSE IF gene = 1
    THEN parent_giving(mother_gene, FALSE) * parent_giving(father_gene, TRUE) +
         parent_giving(mother_gene, TRUE) * parent_giving(father_gene, FALSE)
    ELSE parent_giving(mother_gene, TRUE) * parent_giving(father_gene, TRUE)

\* lines 158-174: the factor of somebody with a mother, in units of 10^-6
parents_prob(gene, trait, mother_gene, father_gene) ==
    child_gene_prob(gene, mother_gene, father_gene) * PROBS.trait[gene][trait]

\* The joint probability in units of 10^-(6n), or "KeyError" when a parent
\* looked up in genes is no key of it.  people is not empty.
joint_probability(ppl, og, tg, ht) ==
    LET has_no_parents == {name \in DOMAIN ppl : ppl[name].mother = None}
        has_parents == DOMAIN ppl \ has_no_parents
        genes == get_gene_numbers(ppl, og, tg)
        prob(name) ==
            IF name \in has_no_parents
            THEN no_parents_prob(genes[name], name \in ht)
            ELSE parents_prob(genes[name], name \in ht,
                              genes[ppl[name].mother], genes[ppl[name].father])
        order == ListOf(DOMAIN ppl)
    IN  IF \E name \in has_parents :
              ppl[name].mother \notin DOMAIN genes \/ ppl[name].father \notin DOMAIN genes
        THEN "KeyError"
        ELSE BigProduct([i \in 1..Len(order) |-> BigFromNat(prob(order[i]))])

\* update that always adds to the bucket of those who show the trait
update_trait_always(probs, og, tg, ht, q) ==
    LET genes == get_gene_numbers(probs, og, tg)
    IN  [name \in DOMAIN probs |->
            [gene  |-> [g \in 0..2 |->
                          IF g = genes[name] THEN BigAdd(probs[name].gene[g], q)
                          ELSE probs[name].gene[g]],
             trait |-> [t \in BOOLEAN |->
                          IF t THEN BigAdd(probs[name].trait[t], q)
                          ELSE probs[name].trait[t]]]]

update(probs, og, tg, ht, q) ==
    LET genes == get_gene_numbers(probs, og, tg)
    IN  [name \in DOMAIN probs |->
            [gene  |-> [g \in 0..2 |->
                          IF g = genes[name] THEN BigAdd(probs[name].gene[g], q)
                          ELSE probs[name].gene[g]],
             trait |-> [t \in BOOLEAN |->
                          IF t = (name \in ht) THEN BigAdd(probs[name].trait[t], q)
                          ELSE probs[name].trait[t]]]]

\* x / total of two floats, total not zero
Quotient(x, total) == [num |-> x, den |-> total]

\* A total that leaves out the zero-copies bucket
total_gene_of_partial(dist) == BigSum(<<dist[2], dist[1]>>)

\* line 234
total_gene_of(dist) == BigSum(<<dist[2], dist[1], dist[0]>>)

\* line 235
total_trait_of(dist) == BigSum(<<dist[TRUE], dist[FALSE]>>)

\* normalize, name by name: the accumulator as the call leaves it and the
\* exception it raised, "none" if it returned.
RECURSIVE normalize_from(_, _)
normalize_from(probs, todo) ==
    IF todo = <<>> THEN [probabilities |-> probs, err |-> "none"]
    ELSE LET name == Head(todo)
             total_gene == total_gene_of(probs[name].gene)
             total_trait == total_trait_of(probs[name].trait)
             genes_done == [probs EXCEPT ![name].gene =
                              [g \in 0..2 |-> Quotient(probs[name].gene[g], total_gene)]]
             both_done == [genes_done EXCEPT ![name].trait =
                              [t \in BOOLEAN |-> Quotient(probs[name].trait[t], total_trait)]]
         IN  IF total_gene = <<>>
             THEN [probabilities |-> probs, err |-> "ZeroDivisionError"]
             ELSE IF total_trait = <<>>
             THEN [probabilities |-> genes_done, err |-> "ZeroDivisionError"]
             ELSE normalize_from(both_done, Tail(todo))

normalize(probs) == normalize_from(probs, ListOf(DOMAIN probs))

\* An evidence check that only notices a missing trait, not a wrongly assumed one
fails_evidence_one_sided(ppl, ht) ==
    \E person \in DOMAIN ppl :
        ppl[person].trait = "True" /\ person \notin ht

\* lines 69-73
fails_evidence(ppl, ht) ==
    \E person \in DOMAIN ppl :
        ppl[person].trait # None /\ ppl[person].trait # Bool(person \in ht)

----------------------------------------------------------------------------
(* heredity.py: main(), one action per step of its loops.                  *)

names == DOMAIN people

Hypothesis(og, tg, ht) == [one_gene |-> og, two_genes |-> tg, have_trait |-> ht]

PagerankIdle ==
    /\ corpus = <<>>
    /\ damping_factor = 0
    /\ model = <<>>
    /\ page = None
    /\ pagerank = <<>>
    /\ samples = 0

InitHeredity(rowsets, tables) ==
    /\ pc = "load"
    /\ rows \in rowsets
    /\ PROBS \in tables
    /\ people = <<>>
    /\ probabilities = <<>>
    /\ ti = 0 /\ oi = 0 /\ wi = 0
    /\ one_gene = {} /\ two_genes = {} /\ have_trait = {}
    /\ p = <<>>
    /\ err = "none"
    /\ called = <<>>
    /\ visited = {}
    /\ ncalls = 0
    /\ raw = <<>>
    /\ calls = EmptyBag
    /\ PagerankIdle

\* lines 46-65: load the CSV, zero the accumulator, start the outer loop
Load ==
    /\ pc = "load"
    /\ people' = load_data(rows)
    /\ probabilities' = ZeroProbabilities(DOMAIN rows)
    /\ ti' = 1
    /\ pc' = "trait_loop"
    /\ UNCHANGED <<rows, PROBS, oi, wi, one_gene, two_genes, have_trait, p, err,
                   called, visited, ncalls, raw, calls>>
    /\ UNCHANGED pagerankVars

\* lines 66-75: a trait set that violates the evidence is skipped
SkipHypothesis ==
    /\ pc = "trait_loop"
    /\ ti <= Len(powerset(names))
    /\ fails_evidence(people, powerset(names)[ti])
    /\ ti' = ti + 1
    /\ UNCHANGED <<pc, rows, PROBS, people, probabilities, oi, wi, one_gene, two_genes,
                   have_trait, p, err, called, visited, ncalls, raw, calls>>
    /\ UNCHANGED pagerankVars

\* lines 66-78: a trait set that agrees with the evidence enters the gene loops
EnterGeneLoops ==
    /\ pc = "trait_loop"
    /\ ti <= Len(powerset(names))
    /\ ~fails_evidence(people, powerset(names)[ti])
    /\ have_trait' = powerset(names)[ti]
    /\ oi' = 1
    /\ wi' = 1
    /\ pc' = "gene_loop"
    /\ UNCHANGED <<rows, PROBS, people, probabilities, ti, one_gene, two_genes,
                   p, err, called, visited, ncalls, raw, calls>>
    /\ UNCHANGED pagerankVars

\* lines 78-83: one iteration of the innermost loop
Evaluate ==
    /\ pc = "gene_loop"
    /\ LET outer == powerset(names)
           og == outer[oi]
           inner == two_genes_sets(names, og)
           tg == inner[wi]
           q == joint_probability(people, og, tg, have_trait)
       IN  /\ one_gene' = og
           /\ two_genes' = tg
           /\ p' = q
           /\ called' = Hypothesis(og, tg, have_trait)
           /\ visited' = visited \cup {Hypothesis(og, tg, have_trait)}
           /\ ncalls' = ncalls + 1
           /\ IF q = "KeyError"
              THEN /\ pc' = "error"
                   /\ err' = "KeyError"
                   /\ UNCHANGED <<probabilities, ti, oi, wi>>
              ELSE /\ probabilities' = update(probabilities, og, tg, have_trait, q)
                   /\ err' = err
                   /\ IF wi < Len(inner)
                      THEN wi' = wi + 1 /\ UNCHANGED <<oi, ti, pc>>
                      ELSE IF oi < Len(outer)
                      THEN oi' = oi + 1 /\ wi' = 1 /\ UNCHANGED <<ti, pc>>
                      ELSE ti' = ti + 1 /\ pc' = "trait_loop" /\ UNCHANGED <<oi, wi>>
    /\ UNCHANGED <<rows, PROBS, people, have_trait, raw, calls>>
    /\ UNCHANGED pagerankVars

\* lines 85-95: after the loops, normalize and report, or die of its exception
Normalize ==
    /\ pc = "trait_loop"
    /\ ti > Len(powerset(names))
    /\ raw' = probabilities
    /\ LET r == normalize(probabilities)
       IN  /\ probabilities' = r.probabilities
           /\ err' = r.err
           /\ pc' = IF r.err = "none" THEN "done" ELSE "error"
    /\ UNCHANGED <<rows, PROBS, people, ti, oi, wi, one_gene, two_genes, have_trait, p,
                   called, visited, ncalls, calls>>
    /\ UNCHANGED pagerankVars

NextHeredity == Load \/ SkipHypothesis \/ EnterGeneLoops \/ Evaluate \/ Normalize

\* The program on the CSVs its documentation allows, with the tables of the source
Init == InitHeredity(WellFormedRows(MaxPeople), {DefaultPROBS})

Next == NextHeredity

Spec == Init /\ [][Next]_vars

\* The program on CSVs that may be malformed and with tables that may be degenerate
InitAny == InitHeredity(AnyRows(MaxLoadPeople), {DefaultPROBS, ZeroTraitPROBS})

SpecAny == InitAny /\ [][NextHeredity]_vars

----------------------------------------------------------------------------
(* heredity.py: update() called on its own, with any hypotheses in any     *)
(* order, on the accumulator main() starts from.                           *)

\* The individuals of the accumulator that update is called on
UpdateNames == NameSet(2)

\* The probabilities update is called with, in units of the accumulator
UpdateValues == {BigFromNat(1), BigFromNat(2)}

Call(og, tg, ht, q) == [one_gene |-> og, two_genes |-> tg, have_trait |-> ht, p |-> q]

InitUpdate ==
    /\ pc = "update"
    /\ rows = <<>>
    /\ PROBS = DefaultPROBS
    /\ people = <<>>
    /\ probabilities = ZeroProbabilities(UpdateNames)
    /\ ti = 0 /\ oi = 0 /\ wi = 0
    /\ one_gene = {} /\ two_genes = {} /\ have_trait = {}
    /\ p = <<>>
    /\ err = "none"
    /\ called = <<>>
    /\ visited = {}
    /\ ncalls = 0
    /\ raw = <<>>
    /\ calls = EmptyBag
    /\ PagerankIdle

\* lines 214-225, for a hypothesis with disjoint gene sets
UpdateCall ==
    /\ pc = "update"
    /\ BagCardinality(calls) < MaxCalls
    /\ \E og \in SUBSET DOMAIN probabilities, ht \in SUBSET DOMAIN probabilities,
          q \in UpdateValues :
          \E tg \in SUBSET (DOMAIN probabilities \ og) :
              /\ probabilities' = update(probabilities, og, tg, ht, q)
              /\ calls' = calls (+) SetToBag({Call(og, tg, ht, q)})
    /\ UNCHANGED <<pc, rows, PROBS, people, ti, oi, wi, one_gene, two_genes, have_trait,
                   p, err, called, visited, ncalls, raw>>
    /\ UNCHANGED pagerankVars

SpecUpdate == InitUpdate /\ [][UpdateCall]_vars

----------------------------------------------------------------------------
(* pagerank.py: transition_model and the sampling loop that calls it.      *)
(* Values are exact rationals kept in lowest terms.                        *)

\* DAMPING, in hundredths
DAMPING == 85

RECURSIVE GCD(_, _)
GCD(a, b) == IF b = 0 THEN a ELSE GCD(b, a % b)

Q(n, d) == LET g == GCD(n, d) IN [num |-> n \div g, den |-> d \div g]

QAdd(x, y) == Q(x.num * y.den + y.num * x.den, x.den * y.den)

QDiv(x, k) == Q(x.num, x.den * k)

RECURSIVE QSum(_, _)
QSum(f, S) ==
    IF S = {} THEN Q(0, 1)
    ELSE LET k == CHOOSE x \in S : TRUE IN QAdd(f[k], QSum(f, S \ {k}))

\* What crawl returns for 1..MaxPages pages: links to other pages of the corpus
Corpora ==
    UNION {{c \in [1..k -> SUBSET (1..k)] : \A pg \in 1..k : pg \notin c[pg]} : k \in 1..MaxPages}

\* lines 63-65: every page starts at (1 - d)/N, and what the loop over the
\* links of the page adds to a page it reaches.  The loop runs over
\* corpus[page]; corrected_corpus is used for its keys and its length only.
transition_model(c, pg, d) ==
    LET corrected_corpus == [k \in DOMAIN c |-> IF c[k] # {} THEN c[k] ELSE DOMAIN c]
        start == QDiv(Q(One - d, One), Cardinality(DOMAIN corrected_corpus))
    IN  [link \in DOMAIN corrected_corpus |->
            IF link \in c[pg]
            THEN QAdd(start, QDiv(Q(d, One), Cardinality(c[pg])))
            ELSE start]

HeredityIdle ==
    /\ rows = <<>>
    /\ PROBS = DefaultPROBS
    /\ people = <<>>
    /\ probabilities = <<>>
    /\ ti = 0 /\ oi = 0 /\ wi = 0
    /\ one_gene = {} /\ two_genes = {} /\ have_trait = {}
    /\ p = <<>>
    /\ err = "none"
    /\ called = <<>>
    /\ visited = {}
    /\ ncalls = 0
    /\ raw = <<>>
    /\ calls = EmptyBag

InitPagerank ==
    /\ pc = "sample_start"
    /\ corpus \in Corpora
    /\ damping_factor = DAMPING
    /\ model = <<>>
    /\ page = None
    /\ pagerank = <<>>
    /\ samples = 0
    /\ HeredityIdle

\* lines 78-81: the first sample is any page
SampleFirst ==
    /\ pc = "sample_start"
    /\ \E first \in DOMAIN corpus :
          /\ page' = first
          /\ model' = transition_model(corpus, first, damping_factor)
          /\ pagerank' = [k \in {first} |-> 1]
    /\ samples' = 1
    /\ pc' = "sampling"
    /\ UNCHANGED <<corpus, damping_factor>>
    /\ UNCHANGED heredityVars

\* lines 83-86: random.choices draws a page of positive weight
SampleNext ==
    /\ pc = "sampling"
    /\ samples < MaxSamples
    /\ \E next \in {k \in DOMAIN model : model[k].num > 0} :
          /\ page' = next
          /\ pagerank' = [k \in DOMAIN pagerank \cup {next} |->
                            (IF k \in DOMAIN pagerank THEN pagerank[k] ELSE 0) +
                            (IF k = next THEN 1 ELSE 0)]
          /\ model' = transition_model(corpus, next, damping_factor)
    /\ samples' = samples + 1
    /\ UNCHANGED <<pc, corpus, damping_factor>>
    /\ UNCHANGED heredityVars

\* lines 88-89: the counts become frequencies
SampleFinish ==
    /\ pc = "sampling"
    /\ samples = MaxSamples
    /\ pagerank' = [k \in DOMAIN pagerank |-> Q(pagerank[k], MaxSamples)]
    /\ pc' = "sampled"
    /\ UNCHANGED <<corpus, damping_factor, model, page, samples>>
    /\ UNCHANGED heredityVars

NextPagerank == SampleFirst \/ SampleNext \/ SampleFinish

SpecPagerank == InitPagerank /\ [][NextPagerank]_vars

----------------------------------------------------------------------------
(* Vocabulary of the properties.                                           *)

\* A trait set agrees with the evidence
AgreesWithEvidence(ht) ==
    \A person \in names :
        people[person].trait # None => (person \in ht <=> people[person].trait = "True")

Unknown == {person \in names : people[person].trait = None}

RECURSIVE Power(_, _)
Power(b, e) == IF e = 0 THEN 1 ELSE b * Power(b, e - 1)

\* The loops of main() have run to their end
LoopsDone == raw # <<>>

\* Every hypothesis that agrees with the evidence
ConsistentHypotheses ==
    {h \in {Hypothesis(og, tg, ht) :
                og \in SUBSET names, tg \in SUBSET names,
                ht \in {t \in SUBSET names : AgreesWithEvidence(t)}} :
        h.one_gene \cap h.two_genes = {}}

\* Gene count of somebody under a hypothesis with disjoint gene sets
GeneCount(name, og, tg) == Cardinality({name} \cap og) + 2 * Cardinality({name} \cap tg)

\* Quotients compared and added as rationals
FracEq(x, y) == BigMul(x.num, y.den) = BigMul(y.num, x.den)

FracLeq(x, y) == BigLeq(BigMul(x.num, y.den), BigMul(y.num, x.den))

FracAdd(x, y) ==
    [num |-> BigAdd(BigMul(x.num, y.den), BigMul(y.num, x.den)), den |-> BigMul(x.den, y.den)]

FracOne == [num |-> <<1>>, den |-> <<1>>]

FracZero == [num |-> <<>>, den |-> <<1>>]

Hundredths(k) == [num |-> BigFromNat(k), den |-> BigFromNat(One)]

\* The children, grandchildren, ... of a set of individuals
ChildrenOf(S) == {c \in names : people[c].mother \in S \/ people[c].father \in S}

RECURSIVE DescendantsOf(_)
DescendantsOf(S) ==
    LET next == S \cup ChildrenOf(S)
    IN  IF next = S THEN S ELSE DescendantsOf(next)

Descendants(name) == DescendantsOf(ChildrenOf({name}))

\* The probability that a parent hands on the gene, and that it does not
Pt(pg) == CASE pg = 0 -> PROBS.mutation [] pg = 1 -> Half [] pg = 2 -> One - PROBS.mutation

Pnt(pg) == One - Pt(pg)

\* The contribution of one individual to the joint probability, in units of 10^-6
Contribution(name, og, tg, ht) ==
    LET g == GeneCount(name, og, tg)
        t == name \in ht
    IN  IF people[name].mother = None /\ people[name].father = None
        THEN PROBS.gene[g] * PROBS.trait[g][t] * One
        ELSE LET m == GeneCount(people[name].mother, og, tg)
                 f == GeneCount(people[name].father, og, tg)
                 child == CASE g = 0 -> Pnt(m) * Pnt(f)
                            [] g = 2 -> Pt(m) * Pt(f)
                            [] g = 1 -> Pt(m) * Pnt(f) + Pnt(m) * Pt(f)
             IN  child * PROBS.trait[g][t]

RECURSIVE ProductOver(_, _, _, _)
ProductOver(S, og, tg, ht) ==
    IF S = {} THEN <<1>>
    ELSE LET name == CHOOSE x \in S : TRUE
         IN  BigMul(BigFromNat(Contribution(name, og, tg, ht)),
                    ProductOver(S \ {name}, og, tg, ht))

----------------------------------------------------------------------------
(* C1: every hypothesis handed to joint_probability and update agrees with *)
(* the evidence: somebody whose trait is known is in have_trait exactly    *)
(* when the known trait is true.  Hence the accumulator's trait bucket     *)
(* that contradicts a known trait receives exactly zero.                   *)
C1_OnlyEvidenceConsistentHypotheses ==
    /\ \A h \in visited : AgreesWithEvidence(h.have_trait)
    /\ pc = "gene_loop" => AgreesWithEvidence(have_trait)
    /\ (pc \in {"trait_loop", "gene_loop"} /\ ~LoopsDone) =>
          \A person \in names :
              people[person].trait # None =>
                  probabilities[person].trait[people[person].trait # "True"] = <<>>

C1_Witness ==
    /\ pc = "gene_loop"
    /\ ncalls > 0
    /\ \E person \in names : people[person].trait = "False"
    /\ \E person \in names : people[person].trait = "True"
    /\ \E i \in 1..(ti - 1) : fails_evidence(people, powerset(names)[i])

(* C2: the hypotheses handed to joint_probability are pairwise different,  *)
(* their gene sets are disjoint subsets of the individuals, and when the   *)
(* loops end they are exactly the hypotheses that agree with the evidence: *)
(* every assignment of gene counts with every consistent trait set,        *)
(* 3^n * 2^u of them.                                                      *)
C2_EnumerationExactlyOnce ==
    /\ ncalls = Cardinality(visited)
    /\ \A h \in visited :
          /\ h.one_gene \subseteq names
          /\ h.two_genes \subseteq names
          /\ h.have_trait \subseteq names
          /\ h.one_gene \cap h.two_genes = {}
    /\ LoopsDone =>
          /\ visited = ConsistentHypotheses
          /\ ncalls = Power(3, Cardinality(names)) * Power(2, Cardinality(Unknown))
          /\ {[name \in names |-> GeneCount(name, h.one_gene, h.two_genes)] : h \in visited}
                = [names -> 0..2]
          /\ {h.have_trait : h \in visited} = {t \in SUBSET names : AgreesWithEvidence(t)}

C2_Witness ==
    /\ LoopsDone
    /\ Cardinality(names) = 3
    /\ Cardinality(Unknown) = 1
    /\ ncalls = 54

(* C3: joint_probability returns the product of the contributions of the   *)
(* individuals: GenePrior[g] * TraitGivenGene[g][t] for somebody without   *)
(* parents, P(child = g) * TraitGivenGene[g][t] for a child, P(child = g)  *)
(* built from Pt and Pnt = 1 - Pt of the two parents.  For parents with 0  *)
(* and 2 copies and mutation rate 0.01 the child's probabilities are       *)
(* 0.0099, 0.9802 and 0.0099, which sum to 1.                              *)
C3_JointProbabilityIsProduct ==
    /\ (ncalls > 0 /\ err = "none") =>
          p = ProductOver(names, called.one_gene, called.two_genes, called.have_trait)
    /\ PROBS.mutation = 1 =>
          /\ child_gene_prob(0, 0, 2) = 99
          /\ child_gene_prob(1, 0, 2) = 9802
          /\ child_gene_prob(2, 0, 2) = 99
          /\ child_gene_prob(0, 0, 2) + child_gene_prob(1, 0, 2) + child_gene_prob(2, 0, 2)
                = One * One

C3_Witness ==
    /\ ncalls > 0
    /\ err = "none"
    /\ \E child \in names :
          /\ people[child].mother # None
          /\ GeneCount(people[child].mother, called.one_gene, called.two_genes) = 0
          /\ GeneCount(people[child].father, called.one_gene, called.two_genes) = 2
          /\ GeneCount(child, called.one_gene, called.two_genes) = 1
          /\ child \in called.have_trait

NormalizedGeneIsPrior(name) ==
    \A g \in 0..2 : FracEq(probabilities[name].gene[g], Hundredths(PROBS.gene[g]))

(* C4 as stated: whoever has no evidence ends with the gene distribution   *)
(* GenePrior, whatever the pedigree and the evidence of the others.        *)
C4_Original ==
    pc = "done" =>
        \A name \in names : people[name].trait = None => NormalizedGeneIsPrior(name)

(* C4 amended: somebody without parents and without evidence, none of      *)
(* whose descendants has evidence, ends with the gene distribution         *)
(* GenePrior, whatever the evidence of the others.                         *)
C4_RootWithoutObservedDescendants ==
    pc = "done" =>
        \A name \in names :
            (/\ people[name].trait = None
             /\ people[name].mother = None
             /\ \A d \in Descendants(name) : people[d].trait = None)
            => NormalizedGeneIsPrior(name)

C4_Witness ==
    /\ pc = "done"
    /\ \E name \in names :
          /\ people[name].trait = None
          /\ people[name].mother = None
          /\ Descendants(name) # {}
          /\ \A d \in Descendants(name) : people[d].trait = None
          /\ \E other \in names : people[other].trait = "True"

(* C5: when main() has normalized, the three gene values of everybody sum  *)
(* to 1, the two trait values sum to 1, every value lies in [0, 1], and    *)
(* the values are in the proportions of the buckets before normalize.      *)
C5_NormalizedDistributions ==
    pc = "done" =>
        \A name \in names :
            LET gene == probabilities[name].gene
                trait == probabilities[name].trait
            IN  /\ FracEq(FracAdd(gene[0], FracAdd(gene[1], gene[2])), FracOne)
                /\ FracEq(FracAdd(trait[TRUE], trait[FALSE]), FracOne)
                /\ \A g \in 0..2 : gene[g].den # <<>> /\ FracLeq(FracZero, gene[g])
                                                      /\ FracLeq(gene[g], FracOne)
                /\ \A t \in BOOLEAN : trait[t].den # <<>> /\ FracLeq(FracZero, trait[t])
                                                          /\ FracLeq(trait[t], FracOne)
                /\ \A g1, g2 \in 0..2 :
                      BigMul(BigMul(gene[g1].num, gene[g2].den), raw[name].gene[g2]) =
                      BigMul(BigMul(gene[g2].num, gene[g1].den), raw[name].gene[g1])
                /\ BigMul(BigMul(trait[TRUE].num, trait[FALSE].den), raw[name].trait[FALSE]) =
                   BigMul(BigMul(trait[FALSE].num, trait[TRUE].den), raw[name].trait[TRUE])

C5_Witness ==
    /\ pc = "done"
    /\ \E child \in names : people[child].mother # None /\ people[child].trait = "True"
    /\ \E name \in names : raw[name].gene[2] # raw[name].gene[1]

SingleRootWithTrait ==
    /\ names = {"A"}
    /\ people["A"].mother = None
    /\ people["A"].father = None
    /\ people["A"].trait = "True"
    /\ PROBS = DefaultPROBS

\* |x - v/10000| <= 1/1000 for a quotient x of small numbers
WithinThousandth(x, v) ==
    LET a == 10000 * BigToNat(x.num)
        b == v * BigToNat(x.den)
    IN  a - b <= 10 * BigToNat(x.den) /\ b - a <= 10 * BigToNat(x.den)

UnnormalizedSingleRoot ==
    /\ raw["A"].gene[0] = BigFromNat(9600)
    /\ raw["A"].gene[1] = BigFromNat(16800)
    /\ raw["A"].gene[2] = BigFromNat(6500)

(* C6 as stated: one individual without parents, trait observed true: the  *)
(* buckets are 0.0096, 0.0168, 0.0065 and the normalized gene distribution *)
(* is {0: 0.2885, 1: 0.5057, 2: 0.1957} within 1e-3.                       *)
C6_Original ==
    (SingleRootWithTrait /\ pc = "done") =>
        /\ UnnormalizedSingleRoot
        /\ WithinThousandth(probabilities["A"].gene[0], 2885)
        /\ WithinThousandth(probabilities["A"].gene[1], 5057)
        /\ WithinThousandth(probabilities["A"].gene[2], 1957)

(* C6 amended: the buckets are 0.0096, 0.0168, 0.0065 and the normalized   *)
(* gene distribution is {0: 0.2918, 1: 0.5106, 2: 0.1976} within 1e-3,     *)
(* three values that sum to 1.                                             *)
C6_SingleRootPosterior ==
    (SingleRootWithTrait /\ pc = "done") =>
        /\ UnnormalizedSingleRoot
        /\ WithinThousandth(probabilities["A"].gene[0], 2918)
        /\ WithinThousandth(probabilities["A"].gene[1], 5106)
        /\ WithinThousandth(probabilities["A"].gene[2], 1976)
        /\ FracEq(FracAdd(probabilities["A"].gene[0],
                          FracAdd(probabilities["A"].gene[1], probabilities["A"].gene[2])),
                  FracOne)

C6_Witness == SingleRootWithTrait /\ pc = "done"

ZeroTotal(name) ==
    total_gene_of(raw[name].gene) = <<>> \/ total_trait_of(raw[name].trait) = <<>>

(* C7: when normalize meets somebody of a well-formed pedigree whose gene  *)
(* buckets or trait buckets sum to zero, it fails with                     *)
(* IndeterminateEvidenceError and no normalized result is reported.        *)
C7_IndeterminateEvidenceError ==
    (WellFormed(rows) /\ LoopsDone /\ \E name \in names : ZeroTotal(name)) =>
        /\ pc = "error"
        /\ err = "IndeterminateEvidenceError"

(* C8: a CSV with a parent field alone, a parent who is in no row, or an   *)
(* unrecognized trait literal fails with MalformedPedigreeError when it is *)
(* loaded, before any hypothesis is enumerated.                            *)
C8_MalformedPedigreeError ==
    (~WellFormed(rows) /\ pc # "load") =>
        /\ pc = "error"
        /\ err = "MalformedPedigreeError"
        /\ ncalls = 0

(* C9: for every corpus and every page of it, also a page without links,   *)
(* which counts as linking to every page, transition_model returns a       *)
(* probability distribution over the pages of the corpus: every page has   *)
(* (1 - damping_factor)/N plus an equal share of damping_factor if the     *)
(* current page links to it, and the values sum to 1.                      *)
C9_TransitionModelIsDistribution ==
    pc = "sampling" =>
        LET N == Cardinality(DOMAIN corpus)
            links == IF corpus[page] = {} THEN DOMAIN corpus ELSE corpus[page]
        IN  /\ DOMAIN model = DOMAIN corpus
            /\ QSum(model, DOMAIN model) = Q(1, 1)
            /\ \A k \in DOMAIN corpus :
                  model[k] = QAdd(Q(One - damping_factor, One * N),
                                  IF k \in links
                                  THEN Q(damping_factor, One * Cardinality(links))
                                  ELSE Q(0, 1))

RECURSIVE CallsTotal(_, _)
CallsTotal(bag, S) ==
    IF S = {} THEN 0
    ELSE LET c == CHOOSE x \in S : TRUE
         IN  CopiesIn(c, bag) * BigToNat(c.p) + CallsTotal(bag, S \ {c})

\* What the calls of a bag put in one gene bucket and in one trait bucket
GeneBucket(name, g) ==
    CallsTotal(calls, {c \in BagToSet(calls) : GeneCount(name, c.one_gene, c.two_genes) = g})

TraitBucket(name, t) ==
    CallsTotal(calls, {c \in BagToSet(calls) : (name \in c.have_trait) = t})

C10_Sums ==
    pc = "update" =>
        \A name \in DOMAIN probabilities :
            LET gene == probabilities[name].gene
                trait == probabilities[name].trait
                total == CallsTotal(calls, BagToSet(calls))
            IN  /\ BigToNat(gene[0]) + BigToNat(gene[1]) + BigToNat(gene[2]) = total
                /\ BigToNat(trait[TRUE]) + BigToNat(trait[FALSE]) = total
                /\ \A g \in 0..2 : BigToNat(gene[g]) = GeneBucket(name, g)
                /\ \A t \in BOOLEAN : BigToNat(trait[t]) = TraitBucket(name, t)

C10_Step ==
    pc = "update" =>
        \E c \in BagToSet(calls') :
            /\ calls' = calls (+) SetToBag({c})
            /\ \A name \in DOMAIN probabilities :
                  /\ \A g \in 0..2 :
                        probabilities'[name].gene[g] =
                            IF g = GeneCount(name, c.one_gene, c.two_genes)
                            THEN BigAdd(probabilities[name].gene[g], c.p)
                            ELSE probabilities[name].gene[g]
                  /\ \A t \in BOOLEAN :
                        probabilities'[name].trait[t] =
                            IF t = (name \in c.have_trait)
                            THEN BigAdd(probabilities[name].trait[t], c.p)
                            ELSE probabilities[name].trait[t]

(* C10: from the zeroed accumulator, every update call adds p to exactly   *)
(* one gene bucket and one trait bucket of everybody, the ones of the      *)
(* hypothesis, and leaves the other buckets alone; so the gene buckets and *)
(* the trait buckets of everybody sum to the total of the p's, and every   *)
(* bucket is fixed by the bag of calls made, whatever their order.         *)
C10_UpdateAccumulates == []C10_Sums /\ [][C10_Step]_vars

C10_Witness ==
    /\ pc = "update"
    /\ BagCardinality(calls) >= 2
    /\ \E c1, c2 \in BagToSet(calls) :
          /\ c1.p # c2.p
          /\ c1.one_gene # c2.one_gene
          /\ c1.have_trait # c2.have_trait

====
